---- MODULE Spec2Model ----
(***************************************************************************)
(* A model of the YouTube-to-podcast service: the channel registry and     *)
(* episode store (models.py), the refresh engine and its scheduler         *)
(* (scheduler.py), the remote video service as seen by the engine          *)
(* (downloader.py) and the feed / audio gateway (app.py).                  *)
(*                                                                         *)
(* Every models.py operation opens its own connection and commits on exit  *)
(* (get_db), so each one is a single atomic step; a handler that makes     *)
(* several of them around a slow remote call is several steps.  The        *)
(* handlers run on the Flask request threads and on the APScheduler        *)
(* thread, which share nothing but the database and the audio directory.   *)
(***************************************************************************)
EXTENDS Integers, Sequences, FiniteSets, TLC

\* Python None / SQL NULL.  TLC compares a string only with a string, so the
\* null of a string-valued column is a string of its own; rows, file names,
\* digests and tokens are tuples or records, and their null is the empty tuple.
NULL == <<>>
NONE == "None"

\* Bounds of the model.
MaxChannels == 2                    \* channel rows ever inserted
MaxTokens == 2                      \* tokens ever generated
MaxList == 2                        \* videos in one remote listing
MaxEpisodes == 2                    \* episode rows ever inserted

\* The remote world and the request inputs.
YoutubeIds == {"UCa", "UCb"}
Videos == {"v1", "v2"}
Users == {"alice", "bob"}
Passwords == {"secret", "wrong"}
AUDIO_FORMAT == "mp3"

SchedulerThread == "sched"
RequestThreads == {"req1"}
Threads == {SchedulerThread} \cup RequestThreads

VARIABLES
    channels,        \* table channels: a set of rows
    nextChannelId,   \* AUTOINCREMENT of channels.id
    episodes,        \* table episodes: a set of rows
    nextEpisodeId,   \* AUTOINCREMENT of episodes.id
    files,           \* the file names present in AUDIO_DIR
    nextToken,       \* the next value secrets.token_urlsafe draws
    thread,          \* thread -> where it stands in its handler
    resp,            \* the last gateway request and its response
    hist,            \* observer: refresh runs, tokens returned, failed videos
    config,          \* the configuration the process was started with
    now              \* the clock: what datetime.now() returns next

vars == <<channels, nextChannelId, episodes, nextEpisodeId, files, nextToken,
          thread, resp, hist, config, now>>

(***************************************************************************)
(* Helpers.                                                                *)
(***************************************************************************)
\* The listings the remote service may return: up to MaxList distinct videos.
Listings ==
    {s \in UNION {[1..k -> Videos] : k \in 0..MaxList} :
        \A i, j \in DOMAIN s : i # j => s[i] # s[j]}

Range(s) == {s[i] : i \in DOMAIN s}

IdleThread ==
    [pc |-> "idle", queue |-> <<>>, channel |-> NULL,
     videos |-> <<>>, existing |-> NULL]

NoResp == [route |-> NONE]
\* config.ADMIN_PASSWORD as app.py imports it; the empty string when none is
\* set.  The handlers below are the bodies behind require_admin_auth (see
\* SpecAdmin for the gate), so the other specifications start without one.
NoAdminPassword == [ADMIN_PASSWORD |-> ""]

NoHist ==
    [prev |-> NULL, run |-> NULL, cycle |-> NULL, tokens |-> <<>>,
     failed |-> {}, add |-> NULL]

(***************************************************************************)
(* models.py: credential helpers.                                          *)
(***************************************************************************)
hash_password(password) == <<"sha256", password>>

(***************************************************************************)
(* models.py: Channel.                                                     *)
(***************************************************************************)
ChannelRow(id, yt) ==
    [id |-> id, youtube_channel_id |-> yt, auth_type |-> "none",
     username |-> NONE, password_hash |-> NULL, secret_token |-> NULL]

Channel_get_by_id(channel_id) ==
    IF \E c \in channels : c.id = channel_id
    THEN CHOOSE c \in channels : c.id = channel_id
    ELSE NULL

Channel_get_by_youtube_id(yt) ==
    IF \E c \in channels : c.youtube_channel_id = yt
    THEN CHOOSE c \in channels : c.youtube_channel_id = yt
    ELSE NULL

\* ORDER BY added_at DESC: the most recently inserted row first.
RECURSIVE DescById(_)
DescById(rows) ==
    IF rows = {} THEN <<>>
    ELSE LET top == CHOOSE c \in rows : \A d \in rows : d.id <= c.id
         IN  <<top>> \o DescById(rows \ {top})

\* What refresh_channel reads of a channel dict.
Snapshot(c) == [id |-> c.id, youtube_channel_id |-> c.youtube_channel_id]

Channel_get_all == [i \in DOMAIN DescById(channels) |-> Snapshot(DescById(channels)[i])]

(***************************************************************************)
(* Publish dates.  A date is [year, month, day]; the database holds it as  *)
(* the text the sqlite3 module binds for a datetime, "YYYY-MM-DD HH:MM:SS",*)
(* here the sequence of its character codes.                               *)
(***************************************************************************)
\* upload_date of the remote videos, parsed with '%Y%m%d' (midnight).
UploadDate(video_id) ==
    IF video_id = "v1" THEN [year |-> 2024, month |-> 11, day |-> 20]
    ELSE [year |-> 2024, month |-> 2, day |-> 3]

\* Decimal digits without leading zeros.
Digits_Unpadded(n, width) ==
    IF n < 10 THEN <<48 + n>>
    ELSE IF n < 100 THEN <<48 + (n \div 10), 48 + (n % 10)>>
    ELSE <<48 + (n \div 1000), 48 + ((n \div 100) % 10),
           48 + ((n \div 10) % 10), 48 + (n % 10)>>

\* The decimal digits of n, zero-padded to width 2 or 4, as character codes.
Digits(n, width) ==
    IF width = 2 THEN <<48 + ((n \div 10) % 10), 48 + (n % 10)>>
    ELSE <<48 + ((n \div 1000) % 10), 48 + ((n \div 100) % 10),
           48 + ((n \div 10) % 10), 48 + (n % 10)>>

\* The bound parameter for a datetime at midnight: isoformat(" ").
adapt_datetime(d) ==
    IF d = NULL THEN NULL
    ELSE Digits(d.year, 4) \o <<45>> \o Digits(d.month, 2) \o <<45>>
         \o Digits(d.day, 2) \o <<32, 48, 48, 58, 48, 48, 58, 48, 48>>

\* Text comparison under the BINARY collation (memcmp, shorter first).
TextLess(a, b) ==
    \E k \in 1..(Len(a) + 1) :
        /\ \A i \in 1..(k - 1) : i <= Len(b) /\ a[i] = b[i]
        /\ k <= Len(b)
        /\ k <= Len(a) => a[k] < b[k]

\* The sort order of a column value: NULL is less than any text.
SqlLess(x, y) ==
    IF y = NULL THEN FALSE
    ELSE IF x = NULL THEN TRUE
    ELSE TextLess(x, y)

(***************************************************************************)
(* models.py: Episode.                                                     *)
(***************************************************************************)
Episode_get_by_video_id(video_id) ==
    IF \E e \in episodes : e.video_id = video_id
    THEN CHOOSE e \in episodes : e.video_id = video_id
    ELSE NULL

\* A schema without the UNIQUE constraint on episodes.video_id.
Episode_create_ok_NoUnique(video_id) == TRUE

\* UNIQUE (video_id): the INSERT raises IntegrityError on a duplicate.
Episode_create_ok(video_id) == \A e \in episodes : e.video_id # video_id

\* datetime.now(): a timestamp of the clock.
datetime_now == <<"at", now>>

\* An INSERT that leaves downloaded_at NULL.
Episode_create_NoTimestamp(channel_id, video_id, audio_path) ==
    episodes \cup {[id |-> nextEpisodeId, channel_id |-> channel_id,
                    video_id |-> video_id, audio_path |-> audio_path,
                    published_at |-> adapt_datetime(UploadDate(video_id)),
                    downloaded_at |-> NULL]}

\* INSERT INTO episodes (...), downloaded_at = datetime.now() if audio_path.
Episode_create(channel_id, video_id, audio_path) ==
    episodes \cup {[id |-> nextEpisodeId, channel_id |-> channel_id,
                    video_id |-> video_id, audio_path |-> audio_path,
                    published_at |-> adapt_datetime(UploadDate(video_id)),
                    downloaded_at |-> IF audio_path # NULL THEN datetime_now
                                      ELSE NULL]}

\* UPDATE episodes SET audio_path = ?, downloaded_at = ? WHERE id = ?
Episode_update_audio_path(episode_id, audio_path) ==
    {IF e.id = episode_id
     THEN [e EXCEPT !.audio_path = audio_path, !.downloaded_at = datetime_now]
     ELSE e
       : e \in episodes}

(***************************************************************************)
(* downloader.py: the remote video service.                                *)
(***************************************************************************)
\* download_audio returns f"{video_id}.{AUDIO_FORMAT}"; a file name is the
\* sequence of its dot-separated parts.
AudioFilename(video_id) == <<video_id, AUDIO_FORMAT>>

(***************************************************************************)
(* scheduler.py: refresh_channel and refresh_all_channels.                 *)
(* pc: "loop"  refresh_all_channels, between two channels (line 69)       *)
(*     "list"  refresh_channel entered, before fetch_channel_videos (18)  *)
(*     "check" at the head of the video loop, before get_by_video_id (24) *)
(*     "fetch" before get_video_metadata and download_audio (32-35)       *)
(*     "store" download_audio returned, before the episode write (38-50)  *)
(***************************************************************************)
InRefresh(t) == t.pc \in {"list", "check", "fetch", "store"}

\* A loop of refresh_all_channels that returns after its first channel.
EndRun_FirstChannelOnly(t) == IdleThread

\* refresh_channel returns: back to the loop of refresh_all_channels, or the
\* handler that called it answers.
EndRun(t) ==
    IF t.queue # <<>>
    THEN [IdleThread EXCEPT !.pc = "loop", !.queue = t.queue]
    ELSE IdleThread

\* The for loop moves to the next video of the listing, or ends.
NextVideo(t) ==
    IF Len(t.videos) <= 1
    THEN EndRun(t)
    ELSE [t EXCEPT !.pc = "check", !.videos = Tail(t.videos), !.existing = NULL]

\* refresh_all_channels: channels = Channel.get_all(), then the loop.
StartRefreshAll ==
    IF Channel_get_all = <<>>
    THEN IdleThread
    ELSE [IdleThread EXCEPT !.pc = "loop", !.queue = Channel_get_all]

\* The interval trigger fires the job; APScheduler runs one instance at a time.
SchedulerFire ==
    /\ thread[SchedulerThread].pc = "idle"
    /\ thread' = [thread EXCEPT ![SchedulerThread] = StartRefreshAll]
    /\ UNCHANGED <<channels, nextChannelId, episodes, nextEpisodeId, now, files,
                   nextToken>>
    /\ resp' = NoResp

\* for channel in channels: refresh_channel(channel)
NextChannel(w) ==
    /\ thread[w].pc = "loop"
    /\ LET t == thread[w]
       IN  thread' = [thread EXCEPT ![w] =
               [t EXCEPT !.pc = "list", !.channel = Head(t.queue),
                         !.queue = Tail(t.queue)]]
    /\ UNCHANGED <<channels, nextChannelId, episodes, nextEpisodeId, now, files,
                   nextToken>>
    /\ resp' = NoResp

\* A refresh_channel without the outer try: the listing failure propagates
\* and ends the caller's loop.
FetchChannelVideos_Raises(w) ==
    /\ thread[w].pc = "list"
    /\ \/ \E listing \in Listings :
             thread' = [thread EXCEPT ![w] =
                 IF listing = <<>> THEN EndRun(@)
                 ELSE [@ EXCEPT !.pc = "check", !.videos = listing]]
       \/ thread' = [thread EXCEPT ![w] = IdleThread]
    /\ UNCHANGED <<channels, nextChannelId, episodes, nextEpisodeId, now, files,
                   nextToken>>
    /\ resp' = NoResp

\* videos = fetch_channel_videos(...): a listing, or an exception that the
\* outer except logs.
FetchChannelVideos(w) ==
    /\ thread[w].pc = "list"
    /\ \/ \E listing \in Listings :
             thread' = [thread EXCEPT ![w] =
                 IF listing = <<>> THEN EndRun(@)
                 ELSE [@ EXCEPT !.pc = "check", !.videos = listing]]
       \/ thread' = [thread EXCEPT ![w] = EndRun(@)]
    /\ UNCHANGED <<channels, nextChannelId, episodes, nextEpisodeId, now, files,
                   nextToken>>
    /\ resp' = NoResp

\* A skip test that never skips.
AlreadyDownloaded_Never(existing) == FALSE

\* if existing and existing.get('audio_path'): continue
AlreadyDownloaded(existing) == existing # NULL /\ existing.audio_path # NULL

\* A loop that remembers the videos that failed and skips them.
CheckExisting_SkipsFailed(w) ==
    /\ thread[w].pc = "check"
    /\ LET existing == Episode_get_by_video_id(Head(thread[w].videos))
       IN  thread' = [thread EXCEPT ![w] =
               IF \/ AlreadyDownloaded(existing)
                  \/ Head(thread[w].videos) \in hist.failed
               THEN NextVideo(@)
               ELSE [@ EXCEPT !.pc = "fetch", !.existing = existing]]
    /\ UNCHANGED <<channels, nextChannelId, episodes, nextEpisodeId, now, files,
                   nextToken>>
    /\ resp' = NoResp

\* existing = Episode.get_by_video_id(video_id); skip if already downloaded.
CheckExisting(w) ==
    /\ thread[w].pc = "check"
    /\ LET existing == Episode_get_by_video_id(Head(thread[w].videos))
       IN  thread' = [thread EXCEPT ![w] =
               IF AlreadyDownloaded(existing)
               THEN NextVideo(@)
               ELSE [@ EXCEPT !.pc = "fetch", !.existing = existing]]
    /\ UNCHANGED <<channels, nextChannelId, episodes, nextEpisodeId, now, files,
                   nextToken>>
    /\ resp' = NoResp

\* A loop without the inner try: the failure ends the run in the outer except.
GetVideoMetadataFails_Aborts(w) ==
    /\ thread[w].pc = "fetch"
    /\ thread' = [thread EXCEPT ![w] = EndRun(@)]
    /\ UNCHANGED <<channels, nextChannelId, episodes, nextEpisodeId, now, files,
                   nextToken>>
    /\ resp' = NoResp

\* A loop that records the video before processing it: the failure leaves a
\* row without audio.
GetVideoMetadataFails_StoresPending(w) ==
    /\ thread[w].pc = "fetch"
    /\ thread' = [thread EXCEPT ![w] = NextVideo(@)]
    /\ IF Episode_create_ok(Head(thread[w].videos))
       THEN /\ episodes' = Episode_create(thread[w].channel.id,
                                          Head(thread[w].videos), NULL)
            /\ nextEpisodeId' = nextEpisodeId + 1
       ELSE UNCHANGED <<episodes, nextEpisodeId>>
    /\ UNCHANGED <<channels, nextChannelId, now, files, nextToken>>
    /\ resp' = NoResp

\* get_video_metadata raises: the inner except logs and continues.
GetVideoMetadataFails(w) ==
    /\ thread[w].pc = "fetch"
    /\ thread' = [thread EXCEPT ![w] = NextVideo(@)]
    /\ UNCHANGED <<channels, nextChannelId, episodes, nextEpisodeId, now, files,
                   nextToken>>
    /\ resp' = NoResp

\* get_video_metadata returned; download_audio writes the file and returns its
\* name, or raises.
DownloadAudio(w) ==
    /\ thread[w].pc = "fetch"
    /\ \/ /\ nextEpisodeId + Cardinality({x \in DOMAIN thread : thread[x].pc = "store"})
                <= MaxEpisodes
          /\ files' = files \cup {AudioFilename(Head(thread[w].videos))}
          /\ thread' = [thread EXCEPT ![w].pc = "store"]
       \/ /\ files' = files
          /\ thread' = [thread EXCEPT ![w] = NextVideo(@)]
    /\ UNCHANGED <<channels, nextChannelId, episodes, nextEpisodeId, now,
                   nextToken>>
    /\ resp' = NoResp

\* Create or update the episode; an IntegrityError is logged like any other.
StoreEpisode(w) ==
    /\ thread[w].pc = "store"
    /\ LET t == thread[w]
           video_id == Head(t.videos)
       IN  IF t.existing # NULL
           THEN /\ episodes' = Episode_update_audio_path(t.existing.id,
                                                         AudioFilename(video_id))
                /\ now' = now + 1
                /\ UNCHANGED nextEpisodeId
           ELSE IF Episode_create_ok(video_id)
           THEN /\ episodes' = Episode_create(t.channel.id, video_id,
                                              AudioFilename(video_id))
                /\ nextEpisodeId' = nextEpisodeId + 1
                /\ now' = now + 1
           ELSE UNCHANGED <<episodes, nextEpisodeId, now>>
    /\ thread' = [thread EXCEPT ![w] = NextVideo(@)]
    /\ UNCHANGED <<channels, nextChannelId, files, nextToken>>
    /\ resp' = NoResp

(***************************************************************************)
(* app.py: the management handlers.  A handler that only reads and writes  *)
(* the database is one step; one that calls refresh_channel hands the      *)
(* thread to the engine above.                                             *)
(***************************************************************************)
\* POST /refresh
RefreshAll(w) ==
    /\ thread[w].pc = "idle"
    /\ thread' = [thread EXCEPT ![w] = StartRefreshAll]
    /\ UNCHANGED <<channels, nextChannelId, episodes, nextEpisodeId, now, files,
                   nextToken>>
    /\ resp' = NoResp

\* POST /refresh/<id>: 404 for an unknown channel, else refresh_channel.
RefreshSingle(w, channel_id) ==
    /\ thread[w].pc = "idle"
    /\ LET channel == Channel_get_by_id(channel_id)
       IN  thread' = [thread EXCEPT ![w] =
               IF channel = NULL THEN IdleThread
               ELSE [IdleThread EXCEPT !.pc = "list",
                                       !.channel = Snapshot(channel)]]
    /\ UNCHANGED <<channels, nextChannelId, episodes, nextEpisodeId, now, files,
                   nextToken>>
    /\ resp' = NoResp

\* POST /channels, up to the duplicate check: 400 if already added.
AddChannel(w, yt) ==
    /\ thread[w].pc = "idle"
    /\ nextChannelId + Cardinality({x \in DOMAIN thread : thread[x].pc = "create"})
          <= MaxChannels
    /\ thread' = [thread EXCEPT ![w] =
           IF Channel_get_by_youtube_id(yt) # NULL THEN IdleThread
           ELSE [IdleThread EXCEPT !.pc = "create",
                                   !.channel = [id |-> 0, youtube_channel_id |-> yt]]]
    /\ UNCHANGED <<channels, nextChannelId, episodes, nextEpisodeId, now, files,
                   nextToken>>
    /\ resp' = NoResp

\* A schema without the UNIQUE constraint on channels.youtube_channel_id.
Channel_create_ok_NoUnique(yt) == TRUE

\* UNIQUE (youtube_channel_id): the INSERT raises IntegrityError on a duplicate.
Channel_create_ok(yt) == \A c \in channels : c.youtube_channel_id # yt

\* POST /channels, Channel.create and Channel.get_by_id; an exception is
\* answered 500.  Then the initial refresh_channel.
CreateChannel(w) ==
    /\ thread[w].pc = "create"
    /\ LET yt == thread[w].channel.youtube_channel_id
       IN  IF Channel_create_ok(yt)
           THEN /\ channels' = channels \cup {ChannelRow(nextChannelId, yt)}
                /\ nextChannelId' = nextChannelId + 1
                /\ thread' = [thread EXCEPT ![w] =
                       [@ EXCEPT !.pc = "list",
                                 !.channel = Snapshot(ChannelRow(nextChannelId, yt))]]
           ELSE /\ thread' = [thread EXCEPT ![w] = IdleThread]
                /\ UNCHANGED <<channels, nextChannelId>>
    /\ UNCHANGED <<episodes, nextEpisodeId, now, files, nextToken>>
    /\ resp' = NoResp

\* A query without the audio_path IS NOT NULL condition.
Episode_get_by_channel_WithPending(channel_id) ==
    {e \in episodes : e.channel_id = channel_id}

\* Episode.get_by_channel: the downloaded episodes of a channel.
Episode_get_by_channel(channel_id) ==
    {e \in episodes : e.channel_id = channel_id /\ e.audio_path # NULL}

\* The orders in which a set of rows can be returned.
Orderings(rows) ==
    {s \in [1..Cardinality(rows) -> rows] :
        \A i, j \in DOMAIN s : i # j => s[i] # s[j]}

\* ORDER BY published_at DESC: no row comes before one that sorts higher.
Episode_list_by_channel(channel_id) ==
    {s \in Orderings(Episode_get_by_channel(channel_id)) :
        \A i, j \in DOMAIN s :
            i < j => ~SqlLess(s[i].published_at, s[j].published_at)}

\* A handler that leaves the episode rows to a foreign-key cascade the
\* connection never enables.
DeleteChannel_NoEpisodeDelete(channel_id) ==
    /\ Channel_get_by_id(channel_id) # NULL
    /\ files' = files \ {e.audio_path : e \in Episode_get_by_channel(channel_id)}
    /\ channels' = {c \in channels : c.id # channel_id}
    /\ UNCHANGED <<nextChannelId, episodes, nextEpisodeId, now, nextToken, thread>>
    /\ resp' = NoResp

\* DELETE /channels/<id>: unlink the audio files, delete the episodes, delete
\* the channel.
DeleteChannel(channel_id) ==
    /\ Channel_get_by_id(channel_id) # NULL
    /\ files' = files \ {e.audio_path : e \in Episode_get_by_channel(channel_id)}
    /\ episodes' = {e \in episodes : e.channel_id # channel_id}
    /\ channels' = {c \in channels : c.id # channel_id}
    /\ UNCHANGED <<nextChannelId, nextEpisodeId, now, nextToken, thread>>
    /\ resp' = NoResp

(***************************************************************************)
(* models.py: the auth policy of a channel.                                *)
(***************************************************************************)
\* secrets.token_urlsafe(32): 256 random bits, taken as a value never drawn
\* before.
generate_token == <<"token", nextToken>>

Tokens == {<<"token", k>> : k \in 1..MaxTokens}

\* A test for None only, which lets the empty string through.
Truthy_NotNone(x) == x # NONE

\* Python truthiness of an optional string.
Truthy(x) == x \notin {NONE, ""}

Channel_get_by_token(token) ==
    IF token # NULL /\ \E c \in channels : c.secret_token = token
    THEN CHOOSE c \in channels : c.secret_token = token
    ELSE NULL

\* An update to token mode that keeps a token the channel already has.
TokenFor_KeepExisting(row) ==
    IF row.secret_token # NULL THEN row.secret_token ELSE generate_token

\* token = generate_token(), whatever the row holds.
TokenFor(row) == generate_token

\* An update to token mode that leaves the basic credentials in place.
AuthRow_StaleBasic(row, auth_type, username, password) ==
    CASE auth_type = "none" ->
           [row EXCEPT !.auth_type = "none", !.username = NONE,
                       !.password_hash = NULL, !.secret_token = NULL]
      [] auth_type = "basic" ->
           [row EXCEPT !.auth_type = "basic", !.username = username,
                       !.password_hash = hash_password(password),
                       !.secret_token = NULL]
      [] auth_type = "token" ->
           [row EXCEPT !.auth_type = "token", !.secret_token = TokenFor(row)]

\* UPDATEs that leave secret_token as it is when the mode is not token.
AuthRow_KeepToken(row, auth_type, username, password) ==
    CASE auth_type = "none" ->
           [row EXCEPT !.auth_type = "none", !.username = NONE,
                       !.password_hash = NULL]
      [] auth_type = "basic" ->
           [row EXCEPT !.auth_type = "basic", !.username = username,
                       !.password_hash = hash_password(password)]
      [] auth_type = "token" ->
           [row EXCEPT !.auth_type = "token", !.username = NONE,
                       !.password_hash = NULL, !.secret_token = TokenFor(row)]

\* The row each UPDATE of Channel.update_auth writes.
AuthRow(row, auth_type, username, password) ==
    CASE auth_type = "none" ->
           [row EXCEPT !.auth_type = "none", !.username = NONE,
                       !.password_hash = NULL, !.secret_token = NULL]
      [] auth_type = "basic" ->
           [row EXCEPT !.auth_type = "basic", !.username = username,
                       !.password_hash = hash_password(password),
                       !.secret_token = NULL]
      [] auth_type = "token" ->
           [row EXCEPT !.auth_type = "token", !.username = NONE,
                       !.password_hash = NULL, !.secret_token = TokenFor(row)]

\* Channel.update_auth raises ValueError: basic without both credentials, or
\* an unknown auth type.
update_auth_raises(auth_type, username, password) ==
    \/ auth_type = "basic" /\ ~(Truthy(username) /\ Truthy(password))
    \/ auth_type \notin {"none", "basic", "token"}

\* The channels table after Channel.update_auth(channel_id, ...).
Channel_update_auth(channel_id, auth_type, username, password) ==
    {IF c.id = channel_id THEN AuthRow(c, auth_type, username, password) ELSE c
       : c \in channels}

\* A check that compares the user name only.
Channel_verify_basic_auth_UserOnly(channel_id, username, password) ==
    LET row == Channel_get_by_id(channel_id)
    IN  row # NULL /\ row.username = username

Channel_verify_basic_auth(channel_id, username, password) ==
    LET row == Channel_get_by_id(channel_id)
    IN  /\ row # NULL
        /\ row.username = username
        /\ row.password_hash = hash_password(password)

(***************************************************************************)
(* app.py: the feed and audio gateway.  A request carries HTTP Basic       *)
(* credentials (auth: NULL or [username, password]) and, for /audio, a     *)
(* token query parameter.  Each handler is an operator from the request    *)
(* and the current tables to [status, challenge, body].                    *)
(***************************************************************************)
Auths ==
    {NULL} \cup ([username : Users, password : Passwords]
                   \ {[username |-> "bob", password |-> "wrong"]})
Filenames == {AudioFilename(v) : v \in Videos} \cup {<<v>> : v \in Videos}

Reply(status, challenge, body) ==
    [status |-> status, challenge |-> challenge, body |-> body]

\* A gateway that lets the local-id path through for a token channel.
check_auth_TokenOpen(channel, auth) ==
    CASE channel.auth_type = "none" -> TRUE
      [] channel.auth_type = "basic" ->
           /\ auth # NULL
           /\ Channel_verify_basic_auth(channel.id, auth.username, auth.password)
      [] channel.auth_type = "token" -> TRUE
      [] OTHER -> FALSE

check_auth(channel, auth) ==
    CASE channel.auth_type = "none" -> TRUE
      [] channel.auth_type = "basic" ->
           /\ auth # NULL
           /\ Channel_verify_basic_auth(channel.id, auth.username, auth.password)
      [] channel.auth_type = "token" -> FALSE
      [] OTHER -> FALSE

\* A feed whose enclosures are always the plain audio path.
generate_feed_PlainEnclosure(channel, eps) ==
    LET by_token == channel.auth_type = "token" /\ channel.secret_token # NULL
    IN  [channel |-> channel.id,
         feed_url |-> IF by_token THEN <<"feed", "t", channel.secret_token>>
                      ELSE <<"feed", channel.id>>,
         entries |-> {[id |-> e.video_id,
                       enclosure |-> <<"audio", e.audio_path>>]
                        : e \in {x \in eps : x.audio_path # NULL}}]

\* feed_generator.generate_feed: the self link and one entry per episode with
\* an audio path, its enclosure under the token path for a token channel.
generate_feed(channel, eps) ==
    LET by_token == channel.auth_type = "token" /\ channel.secret_token # NULL
    IN  [channel |-> channel.id,
         feed_url |-> IF by_token THEN <<"feed", "t", channel.secret_token>>
                      ELSE <<"feed", channel.id>>,
         entries |-> {[id |-> e.video_id,
                       enclosure |-> IF by_token
                                     THEN <<"audio", "t", channel.secret_token,
                                            e.audio_path>>
                                     ELSE <<"audio", e.audio_path>>]
                        : e \in {x \in eps : x.audio_path # NULL}}]

\* @require_auth, then get_feed.
get_feed(channel_id, auth) ==
    LET channel == Channel_get_by_id(channel_id)
    IN  IF channel = NULL THEN Reply(404, NONE, NULL)
        ELSE IF ~check_auth(channel, auth)
        THEN IF channel.auth_type = "token" THEN Reply(401, NONE, NULL)
             ELSE Reply(401, "Basic", NULL)
        ELSE Reply(200, NONE,
                   generate_feed(channel, Episode_get_by_channel(channel_id)))

get_feed_by_token(token) ==
    LET channel == Channel_get_by_token(token)
    IN  IF channel = NULL THEN Reply(404, NONE, NULL)
        ELSE IF channel.auth_type # "token" THEN Reply(403, NONE, NULL)
        ELSE Reply(200, NONE,
                   generate_feed(channel, Episode_get_by_channel(channel.id)))

\* filename.rsplit('.', 1)[0] if '.' in filename else filename
VideoIdOf(filename) ==
    IF Len(filename) > 1 THEN SubSeq(filename, 1, Len(filename) - 1)
    ELSE filename

\* The episode whose video id is the given (parsed) string.
EpisodeOfFile(filename) ==
    IF Len(VideoIdOf(filename)) = 1
    THEN Episode_get_by_video_id(VideoIdOf(filename)[1])
    ELSE NULL

\* flask.send_from_directory(AUDIO_DIR, filename): the file, or 404.
send_from_directory(filename) ==
    IF filename \in files THEN Reply(200, NONE, filename)
    ELSE Reply(404, NONE, NULL)

\* A comparison that accepts any token.
TokenParamMatches_AnyToken(token, channel) == token # NULL

\* token != channel.get('secret_token') is answered 401.
TokenParamMatches(token, channel) == token = channel.secret_token

serve_audio(filename, auth, token) ==
    LET episode == EpisodeOfFile(filename)
        channel == IF episode = NULL THEN NULL
                   ELSE Channel_get_by_id(episode.channel_id)
    IN  IF episode = NULL \/ channel = NULL THEN Reply(404, NONE, NULL)
        ELSE IF ~check_auth(channel, auth)
        THEN IF channel.auth_type = "token"
             THEN IF ~TokenParamMatches(token, channel)
                  THEN Reply(401, NONE, NULL)
                  ELSE send_from_directory(filename)
             ELSE Reply(401, "Basic", NULL)
        ELSE send_from_directory(filename)

\* A token route that serves any known episode.
OwnedBy_Anyone(episode, channel) == TRUE

\* episode['channel_id'] != channel['id'] is answered 404.
OwnedBy(episode, channel) == episode.channel_id = channel.id

serve_audio_by_token(token, filename) ==
    LET channel == Channel_get_by_token(token)
        episode == EpisodeOfFile(filename)
    IN  IF channel = NULL THEN Reply(404, NONE, NULL)
        ELSE IF episode = NULL \/ ~OwnedBy(episode, channel)
        THEN Reply(404, NONE, NULL)
        ELSE send_from_directory(filename)

\* The gateway requests as steps: resp holds the request and its answer.
GetFeed(channel_id, auth) ==
    /\ resp' = [route |-> "feed", channel_id |-> channel_id, auth |-> auth,
                reply |-> get_feed(channel_id, auth)]
    /\ UNCHANGED <<channels, nextChannelId, episodes, nextEpisodeId, now, files,
                   nextToken, thread>>

GetFeedByToken(token) ==
    /\ resp' = [route |-> "feed_t", token |-> token,
                reply |-> get_feed_by_token(token)]
    /\ UNCHANGED <<channels, nextChannelId, episodes, nextEpisodeId, now, files,
                   nextToken, thread>>

ServeAudio(filename, auth, token) ==
    /\ resp' = [route |-> "audio", filename |-> filename, auth |-> auth,
                token |-> token, reply |-> serve_audio(filename, auth, token)]
    /\ UNCHANGED <<channels, nextChannelId, episodes, nextEpisodeId, now, files,
                   nextToken, thread>>

ServeAudioByToken(token, filename) ==
    /\ resp' = [route |-> "audio_t", token |-> token, filename |-> filename,
                reply |-> serve_audio_by_token(token, filename)]
    /\ UNCHANGED <<channels, nextChannelId, episodes, nextEpisodeId, now, files,
                   nextToken, thread>>

\* POST /channels/<id>/auth: 404, 400, or Channel.update_auth and the new
\* policy (with the token, for token mode).  resp keeps the row as it was.
update_channel_auth(channel_id, auth_type, username, password) ==
    LET channel == Channel_get_by_id(channel_id)
        asked   == IF auth_type \in {"basic", "token"} THEN auth_type ELSE "none"
    IN  IF channel = NULL THEN Reply(404, NONE, NULL)
        ELSE IF asked = "basic" /\ ~(Truthy(username) /\ Truthy(password))
        THEN Reply(400, NONE, NULL)
        ELSE IF update_auth_raises(asked, username, password)
        THEN Reply(400, NONE, NULL)
        ELSE Reply(200, NONE,
                   [auth_type |-> asked,
                    token |-> IF asked = "token"
                              THEN AuthRow(channel, asked, username,
                                           password).secret_token
                              ELSE NULL])

UpdateChannelAuth(channel_id, auth_type, username, password) ==
    LET reply == update_channel_auth(channel_id, auth_type, username, password)
        token == IF reply.status = 200 THEN reply.body.token ELSE NULL
    IN  /\ token # NULL => nextToken <= MaxTokens
        /\ resp' = [route |-> "auth", channel_id |-> channel_id,
                    auth_type |-> auth_type, username |-> username,
                    password |-> password,
                    old |-> Channel_get_by_id(channel_id), reply |-> reply]
        /\ channels' = IF reply.status = 200
                       THEN Channel_update_auth(channel_id, reply.body.auth_type,
                                                username, password)
                       ELSE channels
        /\ nextToken' = IF token # NULL THEN nextToken + 1 ELSE nextToken
        /\ hist' = IF token # NULL
                   THEN [hist EXCEPT !.tokens =
                           Append(@, [channel_id |-> channel_id, token |-> token])]
                   ELSE hist
        /\ UNCHANGED <<nextChannelId, episodes, nextEpisodeId, now, files, thread,
                       config>>

(***************************************************************************)
(* The service: the scheduler thread and the request threads, interleaved. *)
(***************************************************************************)
ChannelIds == 1..MaxChannels

Init ==
    /\ channels = {}
    /\ nextChannelId = 1
    /\ episodes = {}
    /\ nextEpisodeId = 1
    /\ now = 1
    /\ files = {}
    /\ nextToken = 1
    /\ thread = [w \in Threads |-> IdleThread]
    /\ resp = NoResp
    /\ hist = NoHist
    /\ config = NoAdminPassword

Next ==
    \/ SchedulerFire /\ UNCHANGED <<hist, config>>
    \/ \E w \in RequestThreads : RefreshAll(w) /\ UNCHANGED <<hist, config>>
    \/ \E w \in RequestThreads, id \in ChannelIds :
          RefreshSingle(w, id) /\ UNCHANGED <<hist, config>>
    \/ \E w \in RequestThreads, yt \in YoutubeIds :
          AddChannel(w, yt) /\ UNCHANGED <<hist, config>>
    \/ \E w \in RequestThreads : CreateChannel(w) /\ UNCHANGED <<hist, config>>
    \/ \E id \in ChannelIds : DeleteChannel(id) /\ UNCHANGED <<hist, config>>
    \/ \E w \in Threads : NextChannel(w) /\ UNCHANGED <<hist, config>>
    \/ \E w \in Threads : FetchChannelVideos(w) /\ UNCHANGED <<hist, config>>
    \/ \E w \in Threads : CheckExisting(w) /\ UNCHANGED <<hist, config>>
    \/ \E w \in Threads : GetVideoMetadataFails(w) /\ UNCHANGED <<hist, config>>
    \/ \E w \in Threads : DownloadAudio(w) /\ UNCHANGED <<hist, config>>
    \/ \E w \in Threads : StoreEpisode(w) /\ UNCHANGED <<hist, config>>

Spec == Init /\ [][Next]_vars

(***************************************************************************)
(* The same handlers run one after another (SpecSeq): a handler starts     *)
(* only when no other is running.  hist observes the runs of               *)
(* refresh_channel: prev is the last completed run while nothing has       *)
(* changed the registry since, run is the current or last run, cycle is    *)
(* the current or last execution of refresh_all_channels.                  *)
(***************************************************************************)
Quiet == \A w \in Threads : thread[w].pc = "idle"

RunSummary(run) ==
    [channel |-> run.channel, listing |-> run.listing,
     downloaded |-> run.downloaded]

\* The run that starts when thread state t fetches its listing and becomes t2.
NewRun(t, t2) ==
    LET listing == IF t2.pc = "check" THEN t2.videos ELSE <<>>
        second  == /\ hist.prev # NULL
                   /\ hist.prev.channel = t.channel.id
                   /\ hist.prev.listing = listing
    IN  [channel |-> t.channel.id, listing |-> listing, start |-> episodes,
         second |-> second,
         first |-> IF second THEN hist.prev.downloaded ELSE {},
         calls |-> {}, downloaded |-> {}, done |-> FALSE]

\* The observed cycle had a run of refresh_channel that got no listing.
ListingFailed(cycle) ==
    cycle # NULL /\ \E i \in DOMAIN cycle.ran : ~cycle.ran[i].listed

\* The cycle of refresh_all_channels after thread state t has become t2: its
\* snapshot, the runs of refresh_channel it has made so far, and whether the
\* cycle observed before it had a listing failure.
CycleAfter(t, t2) ==
    LET c == CASE t.pc = "idle" /\ t2.pc = "loop" ->
                    [snapshot |-> [i \in DOMAIN t2.queue |-> t2.queue[i].id],
                     ran |-> <<>>, done |-> FALSE,
                     after_failure |-> ListingFailed(hist.cycle)]
               [] t.pc = "idle" /\ t2.pc # "loop" -> NULL
               [] t.pc = "list" /\ hist.cycle # NULL ->
                    [hist.cycle EXCEPT !.ran =
                       Append(@, [channel |-> t.channel.id,
                                  listed |-> t2.pc = "check"])]
               [] OTHER -> hist.cycle
    IN  IF c # NULL /\ t2.pc = "idle" THEN [c EXCEPT !.done = TRUE] ELSE c

\* hist after a step of thread w.
Observe(w) ==
    LET t   == thread[w]
        t2  == thread'[w]
        cyc == CycleAfter(t, t2)
        run == CASE t.pc = "list"  -> NewRun(t, t2)
                 [] t.pc = "fetch" ->
                      [hist.run EXCEPT
                         !.calls = @ \cup {Head(t.videos)},
                         !.downloaded = IF t2.pc = "store"
                                        THEN @ \cup {Head(t.videos)} ELSE @]
                 [] OTHER -> hist.run
    IN  /\ hist' =
          IF t.pc = "create" /\ channels' # channels THEN NoHist
          ELSE IF InRefresh(t) /\ ~InRefresh(t2)
          THEN [hist EXCEPT !.prev = RunSummary(run),
                            !.run = [run EXCEPT !.done = TRUE],
                            !.cycle = cyc]
          ELSE IF InRefresh(t)
          THEN [hist EXCEPT !.run = run, !.cycle = cyc]
          ELSE [hist EXCEPT !.cycle = cyc]
        /\ UNCHANGED config

NextSeq ==
    \/ Quiet /\ SchedulerFire /\ Observe(SchedulerThread)
    \/ \E w \in RequestThreads : Quiet /\ RefreshAll(w) /\ Observe(w)
    \/ \E w \in RequestThreads, id \in ChannelIds :
          Quiet /\ RefreshSingle(w, id) /\ Observe(w)
    \/ \E w \in RequestThreads, yt \in YoutubeIds :
          Quiet /\ AddChannel(w, yt) /\ Observe(w)
    \/ \E w \in RequestThreads : CreateChannel(w) /\ Observe(w)
    \/ \E id \in ChannelIds : Quiet /\ DeleteChannel(id) /\ hist' = NoHist /\ UNCHANGED config
    \/ \E w \in Threads : NextChannel(w) /\ Observe(w)
    \/ \E w \in Threads : FetchChannelVideos(w) /\ Observe(w)
    \/ \E w \in Threads : CheckExisting(w) /\ Observe(w)
    \/ \E w \in Threads : GetVideoMetadataFails(w) /\ Observe(w)
    \/ \E w \in Threads : DownloadAudio(w) /\ Observe(w)
    \/ \E w \in Threads : StoreEpisode(w) /\ Observe(w)

SpecSeq == Init /\ [][NextSeq]_vars

(***************************************************************************)
(* The gateway and the auth policy (SpecAccess): channels are added (with  *)
(* their initial refresh, on a request thread), deleted and given auth     *)
(* policies, with feed and audio requests arriving at any moment.          *)
(* hist.tokens logs the tokens update_auth returned, in order.             *)
(***************************************************************************)
\* A request is answered before the next step is taken.
Ready == resp = NoResp

Deliver ==
    /\ resp # NoResp
    /\ resp' = NoResp
    /\ UNCHANGED <<channels, nextChannelId, episodes, nextEpisodeId, now, files,
                   nextToken, thread, hist, config>>

\* The auth-update requests: a mode, and credentials for basic.
AuthRequests ==
    {[auth_type |-> a, username |-> NONE, password |-> NONE]
       : a \in {"none", "token", "digest"}}
    \cup [auth_type : {"basic"}, username : {"alice", ""},
          password : {"secret", NONE}]

\* What a feed or audio request carries: nothing, Basic credentials, or (for
\* /audio) a token query parameter.
Credentials ==
    {[auth |-> a, token |-> NULL] : a \in Auths}
    \cup {[auth |-> NULL, token |-> t] : t \in Tokens}

NextAccess ==
    \/ \E w \in RequestThreads, yt \in YoutubeIds :
          Ready /\ AddChannel(w, yt) /\ UNCHANGED <<hist, config>>
    \/ \E w \in RequestThreads : Ready /\ CreateChannel(w) /\ UNCHANGED <<hist, config>>
    \/ \E id \in ChannelIds : Ready /\ DeleteChannel(id) /\ UNCHANGED <<hist, config>>
    \/ \E w \in RequestThreads :
          Ready /\ FetchChannelVideos(w) /\ UNCHANGED <<hist, config>>
    \/ \E w \in RequestThreads : Ready /\ CheckExisting(w) /\ UNCHANGED <<hist, config>>
    \/ \E w \in RequestThreads :
          Ready /\ GetVideoMetadataFails(w) /\ UNCHANGED <<hist, config>>
    \/ \E w \in RequestThreads : Ready /\ DownloadAudio(w) /\ UNCHANGED <<hist, config>>
    \/ \E w \in RequestThreads : Ready /\ StoreEpisode(w) /\ UNCHANGED <<hist, config>>
    \/ \E id \in ChannelIds, r \in AuthRequests :
          Ready /\ UpdateChannelAuth(id, r.auth_type, r.username, r.password)
    \/ \E id \in ChannelIds, auth \in Auths :
          Ready /\ GetFeed(id, auth) /\ UNCHANGED <<hist, config>>
    \/ \E token \in Tokens : Ready /\ GetFeedByToken(token) /\ UNCHANGED <<hist, config>>
    \/ \E f \in Filenames, c \in Credentials :
          Ready /\ ServeAudio(f, c.auth, c.token) /\ UNCHANGED <<hist, config>>
    \/ \E token \in Tokens, f \in Filenames :
          Ready /\ ServeAudioByToken(token, f) /\ UNCHANGED <<hist, config>>
    \/ Deliver

SpecAccess == Init /\ [][NextAccess]_vars

(***************************************************************************)
(* Properties of the refresh engine under interleaving (Spec).             *)
(***************************************************************************)
RefreshesInFlight(channel_id) ==
    {w \in Threads : InRefresh(thread[w]) /\ thread[w].channel.id = channel_id}

Downloaded(video_id) ==
    \E e \in episodes : e.video_id = video_id /\ e.audio_path # NULL

\* C1: in every reachable state, for every channel, at most one execution of
\* refresh_channel for that channel has started and not yet finished.
C1_AtMostOneRefreshInFlight ==
    \A id \in ChannelIds : Cardinality(RefreshesInFlight(id)) <= 1

\* C2: download_audio(v) is never invoked in a state where the episode store
\* already holds an episode for v with a non-null audio reference.
C2_NeverRedownloads ==
    [][\A w \in Threads :
          DownloadAudio(w) => ~Downloaded(Head(thread[w].videos))]_vars

\* C4: in every reachable state no two episode rows share a video id (so no
\* video is an episode of two channels, and re-discovery adds no second row).
C4_VideoIdUnique ==
    \A e1, e2 \in episodes : e1.video_id = e2.video_id => e1 = e2

\* C4 witness: a refresh of one channel has downloaded a video and is about to
\* insert it while another channel already owns an episode for that video.
C4_Witness ==
    \E w \in Threads :
        /\ thread[w].pc = "store"
        /\ thread[w].existing = NULL
        /\ \E e \in episodes : /\ e.video_id = Head(thread[w].videos)
                                /\ e.channel_id # thread[w].channel.id

(***************************************************************************)
(* Properties of consecutive refresh runs (SpecSeq).                       *)
(***************************************************************************)
\* C3: when refresh_channel(C) has run to completion and runs again with
\* nothing in between and the same listing, the second run changes no existing
\* episode row and, for every video the first run downloaded, creates no
\* episode row and invokes neither get_video_metadata nor download_audio.
C3_RefreshIdempotent ==
    (hist.run # NULL /\ hist.run.second) =>
        /\ hist.run.start \subseteq episodes
        /\ \A v \in hist.run.first :
              /\ v \notin hist.run.calls
              /\ \A e \in episodes \ hist.run.start : e.video_id # v

\* C3 witness: a second run over the same listing has completed after a first
\* run that downloaded a video.
C3_Witness ==
    /\ hist.run # NULL
    /\ hist.run.second
    /\ hist.run.done
    /\ hist.run.first # {}

(***************************************************************************)
(* Properties of the auth policy and the gateway (SpecAccess).             *)
(***************************************************************************)
EpisodesOf(c) == {e \in episodes : e.channel_id = c.id}

\* The request's Basic credentials are the ones stored for the channel.
BasicMatches(c, auth) ==
    /\ auth # NULL
    /\ auth.username = c.username
    /\ hash_password(auth.password) = c.password_hash

\* C5: in every reachable state each channel's credential fields match exactly
\* its auth mode: token => secret_token set, username and password_hash null;
\* basic => username and password_hash set, secret_token null; none => all
\* three null.
C5_AuthExclusive ==
    \A c \in channels :
        /\ c.auth_type \in {"none", "basic", "token"}
        /\ c.auth_type = "token" =>
              c.secret_token # NULL /\ c.username = NONE /\ c.password_hash = NULL
        /\ c.auth_type = "basic" =>
              c.username # NONE /\ c.password_hash # NULL /\ c.secret_token = NULL
        /\ c.auth_type = "none" =>
              c.username = NONE /\ c.password_hash = NULL /\ c.secret_token = NULL

\* C5 witness: update_auth has just switched a basic channel to token mode.
C5_Witness ==
    /\ resp.route = "auth"
    /\ resp.reply.status = 200
    /\ resp.old.auth_type = "basic"
    /\ resp.reply.body.auth_type = "token"
    /\ \E c \in channels : c.id = resp.channel_id /\ c.auth_type = "token"

\* C6: the tokens update_auth(id, 'token') has returned are pairwise
\* different, and once a later call for the same channel has returned, the
\* earlier token resolves to no channel: /feed/t/<it> and /audio/t/<it>/<file>
\* answer 404.
C6_TokenRotation ==
    \A i, j \in DOMAIN hist.tokens :
        i < j =>
            /\ hist.tokens[i].token # hist.tokens[j].token
            /\ hist.tokens[i].channel_id = hist.tokens[j].channel_id =>
                  /\ Channel_get_by_token(hist.tokens[i].token) = NULL
                  /\ get_feed_by_token(hist.tokens[i].token).status = 404
                  /\ \A f \in Filenames :
                        serve_audio_by_token(hist.tokens[i].token, f).status = 404

\* C6 witness: a channel that is still registered has been given a second
\* token, and a feed request under its first token has been answered.
C6_Witness ==
    /\ Len(hist.tokens) >= 2
    /\ hist.tokens[1].channel_id = hist.tokens[2].channel_id
    /\ Channel_get_by_id(hist.tokens[1].channel_id) # NULL
    /\ resp.route = "feed_t"
    /\ resp.token = hist.tokens[1].token

\* C7: GET /feed/<id> for an existing channel returns the feed iff the policy
\* is 'none', or 'basic' with Basic credentials whose username is the stored
\* one and whose password hashes to the stored hash; a basic channel answers
\* anything else with 401, a Basic challenge and no feed.
C7_FeedByLocalId ==
    resp.route = "feed" =>
        \A c \in channels :
            c.id = resp.channel_id =>
                LET ok == \/ c.auth_type = "none"
                          \/ c.auth_type = "basic" /\ BasicMatches(c, resp.auth)
                IN  /\ ok <=> resp.reply.status = 200
                    /\ ok <=> resp.reply.body # NULL
                    /\ ok => resp.reply.body = generate_feed(c, EpisodesOf(c))
                    /\ (c.auth_type = "basic" /\ ~ok) =>
                          resp.reply = Reply(401, "Basic", NULL)

\* C7 witness: a basic channel was asked for its feed with the right user
\* name and a wrong password, and answered 401 with the challenge.
C7_Witness ==
    /\ resp.route = "feed"
    /\ resp.auth # NULL
    /\ \E c \in channels :
          /\ c.id = resp.channel_id
          /\ c.auth_type = "basic"
          /\ resp.auth.username = c.username
          /\ hash_password(resp.auth.password) # c.password_hash
    /\ resp.reply.status = 401
    /\ resp.reply.challenge = "Basic"

\* C8: for a channel in token mode with current token T, GET /feed/<id> is
\* rejected whatever credentials it carries, GET /feed/t/<T> returns that
\* channel's feed, and GET /feed/t/<X> answers 404 when X is the current token
\* of no channel.
C8_TokenFeedAccess ==
    /\ resp.route = "feed" =>
          \A c \in channels :
              (c.id = resp.channel_id /\ c.auth_type = "token") =>
                  /\ resp.reply.status \in {401, 403, 404}
                  /\ resp.reply.body = NULL
    /\ resp.route = "feed_t" =>
          /\ \A c \in channels :
                (c.auth_type = "token" /\ c.secret_token = resp.token) =>
                    resp.reply = Reply(200, NONE, generate_feed(c, EpisodesOf(c)))
          /\ (\A c \in channels : c.secret_token # resp.token) =>
                resp.reply = Reply(404, NONE, NULL)

\* C8 witness: a token channel was asked for its feed by local id with Basic
\* credentials and refused.
C8_Witness ==
    /\ resp.route = "feed"
    /\ resp.auth # NULL
    /\ \E c \in channels : c.id = resp.channel_id /\ c.auth_type = "token"
    /\ resp.reply.status = 401

\* C9: GET /audio/t/<token>/<filename> serves the file only if the filename
\* maps to an existing episode owned by the channel carrying the token; for an
\* episode of another channel, or an unknown video id, it answers 404 and
\* serves nothing.
C9_NoCrossChannelAudio ==
    resp.route = "audio_t" =>
        LET owned == \E c \in channels, e \in episodes :
                        /\ c.secret_token = resp.token
                        /\ e.channel_id = c.id
                        /\ <<e.video_id>> = VideoIdOf(resp.filename)
        IN  /\ (resp.reply.status = 200 \/ resp.reply.body # NULL) =>
                  owned /\ resp.reply.body = resp.filename
            /\ ~owned => resp.reply = Reply(404, NONE, NULL)

\* C9 witness: a token that resolves to a channel was used to ask for a file
\* on disk that belongs to an episode of another registered channel; 404.
C9_Witness ==
    /\ resp.route = "audio_t"
    /\ resp.filename \in files
    /\ \E c, o \in channels, e \in episodes :
          /\ c.secret_token = resp.token
          /\ o.id # c.id
          /\ e.channel_id = o.id
          /\ e.audio_path = resp.filename
    /\ resp.reply.status = 404

\* C10: GET /audio/<filename> is authorised against the policy of the channel
\* owning the episode: 404 when the episode or its channel does not exist;
\* otherwise the file is served iff the policy is 'none', or 'basic' with
\* credentials valid for that channel, or 'token' with a token parameter
\* equal to that channel's secret_token, and anything else is answered 401.
\* (An authorised request for a name with no file on disk is a 404.)
C10_AudioByOwnerPolicy ==
    resp.route = "audio" =>
        LET eps == {e \in episodes : <<e.video_id>> = VideoIdOf(resp.filename)}
            own == {c \in channels : \E e \in eps : e.channel_id = c.id}
        IN  /\ own = {} => resp.reply = Reply(404, NONE, NULL)
            /\ \A c \in own :
                  LET ok == \/ c.auth_type = "none"
                            \/ c.auth_type = "basic" /\ BasicMatches(c, resp.auth)
                            \/ c.auth_type = "token" /\ resp.token = c.secret_token
                  IN  /\ resp.reply.status = 200 => ok
                      /\ ~ok => resp.reply.status = 401 /\ resp.reply.body = NULL
                      /\ (ok /\ resp.filename \in files) =>
                            resp.reply = Reply(200, NONE, resp.filename)
                      /\ (ok /\ resp.filename \notin files) =>
                            resp.reply = Reply(404, NONE, NULL)
                      /\ (\E e \in eps : e.audio_path = resp.filename) =>
                            (ok <=> resp.reply.status = 200)

\* C10 witness: a file on disk of a token channel was asked for with a token
\* parameter that is not the channel's, and refused with 401.
C10_Witness ==
    /\ resp.route = "audio"
    /\ resp.token # NULL
    /\ resp.filename \in files
    /\ \E c \in channels, e \in episodes :
          /\ e.channel_id = c.id
          /\ e.audio_path = resp.filename
          /\ c.auth_type = "token"
          /\ c.secret_token # resp.token
    /\ resp.reply.status = 401

(***************************************************************************)
(* Feed rendering over any episode table the schema admits (SpecFeed): the *)
(* database holds two channels and, per video, no row, a pending row       *)
(* (audio_path NULL) or a downloaded one; feeds are requested.             *)
(***************************************************************************)
\* The publish dates of the rows: none, or a date.
PublishDates ==
    {NULL, [year |-> 2023, month |-> 11, day |-> 20],
     [year |-> 2024, month |-> 2, day |-> 3],
     [year |-> 2024, month |-> 2, day |-> 20],
     [year |-> 2024, month |-> 11, day |-> 3]}

\* The episode tables: video -> no row, or [channel_id, downloaded,
\* published].
EpisodeTables ==
    [Videos -> {NULL} \cup [channel_id : 1..2, downloaded : BOOLEAN,
                            published : PublishDates]]

TableRows(tab) ==
    {[id |-> IF v = "v1" THEN 1 ELSE 2, channel_id |-> tab[v].channel_id,
      video_id |-> v,
      audio_path |-> IF tab[v].downloaded THEN AudioFilename(v) ELSE NULL,
      published_at |-> adapt_datetime(tab[v].published),
      downloaded_at |-> IF tab[v].downloaded
                        THEN <<"at", IF v = "v1" THEN 1 ELSE 2>> ELSE NULL]
       : v \in {x \in Videos : tab[x] # NULL}}

InitFeed ==
    /\ nextChannelId = 3
    /\ nextEpisodeId = 3
    /\ now = 3
    /\ nextToken = 2
    /\ channels \in
          {{c1, ChannelRow(2, "UCb")}
             : c1 \in {ChannelRow(1, "UCa"),
                       [ChannelRow(1, "UCa") EXCEPT !.auth_type = "token",
                                                    !.secret_token = <<"token", 1>>]}}
    /\ \E tab \in EpisodeTables :
          /\ episodes = TableRows(tab)
          /\ files = {e.audio_path : e \in {x \in TableRows(tab) : x.audio_path # NULL}}
    /\ thread = [w \in Threads |-> IdleThread]
    /\ resp = NoResp
    /\ hist = NoHist
    /\ config = NoAdminPassword

\* episodes = Episode.get_by_channel(channel_id), as get_feed calls it: resp
\* holds the list returned.
QueryEpisodes(channel_id) ==
    /\ \E s \in Episode_list_by_channel(channel_id) :
          resp' = [route |-> "episodes", channel_id |-> channel_id,
                   reply |-> Reply(200, NONE, s)]
    /\ UNCHANGED <<channels, nextChannelId, episodes, nextEpisodeId, now, files,
                   nextToken, thread>>

NextFeed ==
    \/ \E id \in ChannelIds, auth \in Auths :
          Ready /\ GetFeed(id, auth) /\ UNCHANGED <<hist, config>>
    \/ \E id \in ChannelIds :
          Ready /\ QueryEpisodes(id) /\ UNCHANGED <<hist, config>>
    \/ \E token \in Tokens : Ready /\ GetFeedByToken(token) /\ UNCHANGED <<hist, config>>
    \/ Deliver

SpecFeed == InitFeed /\ [][NextFeed]_vars

\* C11: Episode.get_by_channel never returns an episode whose audio reference
\* is null and returns only episodes of the requested channel; a rendered
\* feed has exactly one entry per downloaded episode of its channel and none
\* for a pending one.
C11_FeedComplete ==
    /\ \A id \in ChannelIds :
          \A e \in Episode_get_by_channel(id) :
              e.audio_path # NULL /\ e.channel_id = id
    /\ (resp.route \in {"feed", "feed_t"} /\ resp.reply.status = 200) =>
          LET ready == {e \in episodes : /\ e.channel_id = resp.reply.body.channel
                                         /\ e.audio_path # NULL}
              entries == resp.reply.body.entries
          IN  /\ {x.id : x \in entries} = {e.video_id : e \in ready}
              /\ Cardinality(entries) = Cardinality(ready)

\* C11 witness: a feed with one entry was rendered for a channel that has a
\* downloaded and a pending episode.
C11_Witness ==
    /\ resp.route \in {"feed", "feed_t"}
    /\ resp.reply.status = 200
    /\ \E e1, e2 \in episodes :
          /\ e1.channel_id = resp.reply.body.channel
          /\ e2.channel_id = resp.reply.body.channel
          /\ e1.audio_path # NULL
          /\ e2.audio_path = NULL
    /\ Cardinality(resp.reply.body.entries) = 1

(***************************************************************************)
(* Properties of one refresh run and one cycle (SpecSeq).                  *)
(***************************************************************************)
\* The videos of the observed run whose metadata fetch or extraction failed.
FailedInRun == hist.run.calls \ hist.run.downloaded

\* C12: when a run of refresh_channel has returned, every video of its listing
\* was processed (attempted, or skipped as already downloaded) whatever failed
\* for the others, every video whose extraction succeeded has a downloaded
\* episode, and every video that failed has no downloaded episode.
C12_VideoFailureIsolated ==
    (hist.run # NULL /\ hist.run.done) =>
        /\ \A v \in Range(hist.run.listing) :
              \/ v \in hist.run.calls
              \/ \E e \in hist.run.start : e.video_id = v /\ e.audio_path # NULL
        /\ \A v \in hist.run.downloaded : Downloaded(v)
        /\ \A v \in FailedInRun : ~Downloaded(v)

\* C12 witness: a run over two videos has returned; the first video failed and
\* the second was downloaded.
C12_Witness ==
    /\ hist.run # NULL
    /\ hist.run.done
    /\ Len(hist.run.listing) = 2
    /\ hist.run.listing[1] \in FailedInRun
    /\ hist.run.listing[2] \in hist.run.downloaded
    /\ Downloaded(hist.run.listing[2])

\* C13: a run of refresh_channel that got no listing (fetch_channel_videos
\* failed) has changed no episode row, and a cycle of refresh_all_channels
\* that has returned has run refresh_channel for every channel of its
\* snapshot, in order, whatever happened to the listings of the others.
C13_ListingFailureIsolated ==
    /\ (hist.run # NULL /\ hist.run.done /\ hist.run.listing = <<>>) =>
          episodes = hist.run.start
    /\ hist.cycle # NULL =>
          /\ Len(hist.cycle.ran) <= Len(hist.cycle.snapshot)
          /\ \A i \in DOMAIN hist.cycle.ran :
                hist.cycle.ran[i].channel = hist.cycle.snapshot[i]
          /\ hist.cycle.done => Len(hist.cycle.ran) = Len(hist.cycle.snapshot)

\* C13 witness: a cycle over two channels has returned; the run for the first
\* channel got no listing and the run for the second downloaded a video.
C13_Witness ==
    /\ hist.cycle # NULL
    /\ hist.cycle.done
    /\ Len(hist.cycle.snapshot) = 2
    /\ Len(hist.cycle.ran) = 2
    /\ ~hist.cycle.ran[1].listed
    /\ hist.cycle.ran[2].listed
    /\ hist.run.channel = hist.cycle.snapshot[2]
    /\ hist.run.downloaded # {}

(***************************************************************************)
(* Properties of the management handlers (Spec).                           *)
(***************************************************************************)
\* C14: when DELETE /channels/<id> completes on a channel with downloaded
\* episodes, no episode row of that channel remains, none of their audio
\* files remains on disk, and get_by_id(id) finds no channel.
C14_CascadeDelete ==
    [][\A id \in ChannelIds :
          (DeleteChannel(id) /\ Episode_get_by_channel(id) # {}) =>
              /\ \A e \in episodes' : e.channel_id # id
              /\ \A e \in Episode_get_by_channel(id) : e.audio_path \notin files'
              /\ Channel_get_by_id(id)' = NULL]_vars

\* C14 witness: the only channel ever registered had an episode downloaded
\* and was deleted: registry, episode table and audio directory are empty.
C14_Witness ==
    /\ nextChannelId = 2
    /\ nextEpisodeId > 1
    /\ channels = {}
    /\ episodes = {}
    /\ files = {}

(***************************************************************************)
(* Properties of the auth-update handler (SpecAccess).                     *)
(***************************************************************************)
\* C15: an auth update asking for 'basic' with a missing or empty username or
\* password is answered 400 and an update for a channel that does not exist
\* is answered 404; either way no channel row is changed.  (A step that
\* leaves an "auth" record in resp is a step of update_channel_auth.)
C15_RejectedUpdateChangesNothing ==
    [][resp'.route = "auth" =>
          /\ resp'.old = NULL =>
                resp'.reply.status = 404 /\ channels' = channels
          /\ ( /\ resp'.old # NULL
               /\ resp'.auth_type = "basic"
               /\ (resp'.username \in {NONE, ""} \/ resp'.password \in {NONE, ""}) ) =>
                resp'.reply.status = 400 /\ channels' = channels]_vars

\* C15 witness: a token channel was asked to switch to basic with an empty
\* username; the request was answered 400 and the row is as it was.
C15_Witness ==
    /\ resp.route = "auth"
    /\ resp.auth_type = "basic"
    /\ resp.username = ""
    /\ resp.old # NULL
    /\ resp.old.auth_type = "token"
    /\ resp.reply.status = 400
    /\ Channel_get_by_id(resp.channel_id) = resp.old

(***************************************************************************)
(* Concurrent registration (SpecAdd): two request threads add and delete   *)
(* channels, each add followed by its initial refresh.                     *)
(***************************************************************************)
Registrars == {"req1", "req2"}

InitAdd ==
    /\ channels = {}
    /\ nextChannelId = 1
    /\ episodes = {}
    /\ nextEpisodeId = 1
    /\ now = 1
    /\ files = {}
    /\ nextToken = 1
    /\ thread = [w \in Registrars |-> IdleThread]
    /\ resp = NoResp
    /\ hist = NoHist
    /\ config = NoAdminPassword

NextAdd ==
    \/ \E w \in Registrars, yt \in YoutubeIds :
          AddChannel(w, yt) /\ UNCHANGED <<hist, config>>
    \/ \E w \in Registrars : CreateChannel(w) /\ UNCHANGED <<hist, config>>
    \/ \E id \in ChannelIds : DeleteChannel(id) /\ UNCHANGED <<hist, config>>
    \/ \E w \in Registrars : FetchChannelVideos(w) /\ UNCHANGED <<hist, config>>
    \/ \E w \in Registrars : CheckExisting(w) /\ UNCHANGED <<hist, config>>
    \/ \E w \in Registrars : GetVideoMetadataFails(w) /\ UNCHANGED <<hist, config>>
    \/ \E w \in Registrars : DownloadAudio(w) /\ UNCHANGED <<hist, config>>
    \/ \E w \in Registrars : StoreEpisode(w) /\ UNCHANGED <<hist, config>>

SpecAdd == InitAdd /\ [][NextAdd]_vars

\* The remote channel id a registering thread carries is already registered.
AlreadyRegistered(t) ==
    Channel_get_by_youtube_id(t.channel.youtube_channel_id) # NULL

\* C16: no two channel rows ever share a remote channel id, also when add
\* requests race; a request goes on to create a channel only if its remote id
\* was not registered when it looked, and a create for a remote id that is
\* registered by then fails: registry and episode table stay as they are and
\* the thread returns without starting a refresh.
C16_DuplicateRejected ==
    [][ /\ \A c1, c2 \in channels' :
              c1.youtube_channel_id = c2.youtube_channel_id => c1 = c2
        /\ \A w \in DOMAIN thread :
              /\ (thread[w].pc = "idle" /\ thread'[w].pc = "create") =>
                    ~AlreadyRegistered(thread'[w])
              /\ ( /\ thread[w].pc = "create"
                   /\ thread'[w] # thread[w]
                   /\ AlreadyRegistered(thread[w]) ) =>
                    /\ channels' = channels
                    /\ episodes' = episodes
                    /\ thread'[w] = IdleThread ]_vars

\* C16 witness: two add requests for one remote channel passed the duplicate
\* check together; one has created the channel and the other is about to.
C16_Witness ==
    \E w \in DOMAIN thread :
        /\ thread[w].pc = "create"
        /\ AlreadyRegistered(thread[w])

(***************************************************************************)
(* app.py: the administrative gate (SpecAdmin).  The process is started    *)
(* with or without an admin password; every management request passes      *)
(* through require_admin_auth before its handler runs.                     *)
(***************************************************************************)
AdminPasswords == {"", "adminpw"}

\* What a management request carries: nothing, the Basic credentials of a
\* channel's feed, or the admin's.
AdminAuths ==
    {NULL, [username |-> "alice", password |-> "secret"],
           [username |-> "admin", password |-> "adminpw"]}

\* The policies the admin sets in this specification.
AdminAuthRequests ==
    {r \in AuthRequests : r.auth_type = "none" \/ r.password = "secret"}

\* A gate that is satisfied by any Basic credentials.
require_admin_auth_AnyCredentials(auth) ==
    \/ config.ADMIN_PASSWORD = ""
    \/ auth # NULL

\* require_admin_auth lets the request through to its handler.
require_admin_auth(auth) ==
    \/ config.ADMIN_PASSWORD = ""
    \/ auth # NULL /\ auth.password = config.ADMIN_PASSWORD

\* 401 with the admin challenge; the handler is not called.
AdminDenied(op, auth) ==
    /\ resp' = [route |-> "admin", op |-> op, auth |-> auth,
                reply |-> Reply(401, "Basic", NULL)]
    /\ UNCHANGED <<channels, nextChannelId, episodes, nextEpisodeId, now, files,
                   nextToken, thread, hist, config>>

\* GET /channels
ListChannels ==
    /\ resp' = [route |-> "channels",
                reply |-> Reply(200, NONE, Channel_get_all)]
    /\ UNCHANGED <<channels, nextChannelId, episodes, nextEpisodeId, now, files,
                   nextToken, thread>>

\* A management request of thread w carrying auth: the gate, then the handler.
AdminRequest(w, auth) ==
    /\ thread[w].pc = "idle"
    /\ \/ IF require_admin_auth(auth)
          THEN ListChannels /\ UNCHANGED <<hist, config>>
          ELSE AdminDenied("list_channels", auth)
       \/ \E yt \in YoutubeIds :
             IF require_admin_auth(auth)
             THEN AddChannel(w, yt) /\ UNCHANGED <<hist, config>>
             ELSE AdminDenied("add_channel", auth)
       \/ \E id \in ChannelIds :
             IF require_admin_auth(auth)
             THEN DeleteChannel(id) /\ UNCHANGED <<hist, config>>
             ELSE AdminDenied("delete_channel", auth)
       \/ \E id \in ChannelIds, r \in AdminAuthRequests :
             IF require_admin_auth(auth)
             THEN UpdateChannelAuth(id, r.auth_type, r.username, r.password)
             ELSE AdminDenied("update_channel_auth", auth)
       \/ \E id \in ChannelIds :
             IF require_admin_auth(auth)
             THEN RefreshSingle(w, id) /\ UNCHANGED <<hist, config>>
             ELSE AdminDenied("refresh_single", auth)
       \/ IF require_admin_auth(auth)
          THEN RefreshAll(w) /\ UNCHANGED <<hist, config>>
          ELSE AdminDenied("refresh_all", auth)

InitAdmin ==
    /\ channels = {}
    /\ nextChannelId = 1
    /\ episodes = {}
    /\ nextEpisodeId = 1
    /\ now = 1
    /\ files = {}
    /\ nextToken = 1
    /\ thread = [w \in Threads |-> IdleThread]
    /\ resp = NoResp
    /\ hist = NoHist
    /\ config \in [ADMIN_PASSWORD : AdminPasswords]

NextAdmin ==
    \/ \E w \in RequestThreads, auth \in AdminAuths :
          Ready /\ AdminRequest(w, auth)
    \/ \E w \in RequestThreads :
          Ready /\ CreateChannel(w) /\ UNCHANGED <<hist, config>>
    \/ \E w \in RequestThreads :
          Ready /\ NextChannel(w) /\ UNCHANGED <<hist, config>>
    \/ \E w \in RequestThreads :
          Ready /\ FetchChannelVideos(w) /\ UNCHANGED <<hist, config>>
    \/ \E w \in RequestThreads :
          Ready /\ CheckExisting(w) /\ UNCHANGED <<hist, config>>
    \/ \E w \in RequestThreads :
          Ready /\ GetVideoMetadataFails(w) /\ UNCHANGED <<hist, config>>
    \/ \E w \in RequestThreads :
          Ready /\ DownloadAudio(w) /\ UNCHANGED <<hist, config>>
    \/ \E w \in RequestThreads :
          Ready /\ StoreEpisode(w) /\ UNCHANGED <<hist, config>>
    \/ Deliver

SpecAdmin == InitAdmin /\ [][NextAdmin]_vars

\* The request presents the shared administrative credential.
PresentsAdminCredential(auth) ==
    auth # NULL /\ auth.password = config.ADMIN_PASSWORD

\* The request was answered 401 and nothing but the response changed.
AdminRefused ==
    /\ resp'.route = "admin"
    /\ resp'.reply.status = 401
    /\ UNCHANGED <<channels, nextChannelId, episodes, nextEpisodeId, now, files,
                   nextToken, thread>>

\* C17 as stated: every management request that does not present the shared
\* administrative credential is answered 401 and changes no channel, episode
\* or file; its handler is not executed.
C17_AdminGated_AsClaimed ==
    [][\A w \in RequestThreads, auth \in AdminAuths :
          (AdminRequest(w, auth) /\ ~PresentsAdminCredential(auth)) =>
              AdminRefused]_vars

\* C17: when an admin password is configured, every management request that
\* does not present it is answered 401 and changes no channel, episode or
\* file, the credentials of a channel's feed included; when none is
\* configured, management requests are executed without credentials.
C17_AdminGated ==
    [][\A w \in RequestThreads, auth \in AdminAuths :
          AdminRequest(w, auth) =>
              /\ (config.ADMIN_PASSWORD # "" /\ ~PresentsAdminCredential(auth))
                    => AdminRefused
              /\ (config.ADMIN_PASSWORD = "" \/ PresentsAdminCredential(auth))
                    => resp'.route # "admin"]_vars

\* C17 witness: with an admin password configured, a management request
\* carrying the valid Basic credentials of a channel's feed was answered 401.
C17_Witness ==
    /\ config.ADMIN_PASSWORD # ""
    /\ resp.route = "admin"
    /\ resp.reply.status = 401
    /\ resp.auth # NULL
    /\ \E c \in channels :
          /\ c.auth_type = "basic"
          /\ Channel_verify_basic_auth(c.id, resp.auth.username,
                                       resp.auth.password)

(***************************************************************************)
(* The scheduler over time (SpecLive): the interval trigger keeps firing   *)
(* and every call the scheduler thread makes returns, with a result or an  *)
(* exception; the request thread adds and deletes channels at any moment,  *)
(* with no obligation to.  hist.cycle observes the scheduler's cycles.     *)
(***************************************************************************)
\* hist.cycle after a step of thread w.
ObserveCycle(w) ==
    /\ hist' = [hist EXCEPT !.cycle = CycleAfter(thread[w], thread'[w])]
    /\ UNCHANGED config

SchedulerStep ==
    /\ \/ NextChannel(SchedulerThread)
       \/ FetchChannelVideos(SchedulerThread)
       \/ CheckExisting(SchedulerThread)
       \/ GetVideoMetadataFails(SchedulerThread)
       \/ DownloadAudio(SchedulerThread)
       \/ StoreEpisode(SchedulerThread)
    /\ ObserveCycle(SchedulerThread)

SchedulerTick == SchedulerFire /\ ObserveCycle(SchedulerThread)

NextLive ==
    \/ SchedulerTick
    \/ SchedulerStep
    \/ \E w \in RequestThreads, yt \in YoutubeIds :
          AddChannel(w, yt) /\ UNCHANGED <<hist, config>>
    \/ \E w \in RequestThreads : CreateChannel(w) /\ UNCHANGED <<hist, config>>
    \/ \E id \in ChannelIds : DeleteChannel(id) /\ UNCHANGED <<hist, config>>
    \/ \E w \in RequestThreads :
          FetchChannelVideos(w) /\ UNCHANGED <<hist, config>>
    \/ \E w \in RequestThreads : CheckExisting(w) /\ UNCHANGED <<hist, config>>
    \/ \E w \in RequestThreads :
          GetVideoMetadataFails(w) /\ UNCHANGED <<hist, config>>
    \/ \E w \in RequestThreads : DownloadAudio(w) /\ UNCHANGED <<hist, config>>
    \/ \E w \in RequestThreads : StoreEpisode(w) /\ UNCHANGED <<hist, config>>

SpecLive ==
    /\ Init
    /\ [][NextLive]_vars
    /\ WF_vars(SchedulerTick)
    /\ WF_vars(SchedulerStep)

\* The scheduler thread is entering refresh_channel for the channel.
ScheduledAttempt(id) ==
    /\ thread[SchedulerThread].pc = "list"
    /\ thread[SchedulerThread].channel.id = id

\* C18: a scheduled cycle always terminates, whatever fails in it, and for
\* every channel, unless the channel is unregistered again and again, the
\* scheduler enters refresh_channel for it infinitely often.
C18_SchedulerSurvives ==
    /\ (thread[SchedulerThread].pc # "idle") ~> (thread[SchedulerThread].pc = "idle")
    /\ \A id \in ChannelIds :
          []<>(Channel_get_by_id(id) = NULL \/ ScheduledAttempt(id))

\* C18 witness: after a cycle in which a channel's listing failed, the
\* scheduler has fired again and is entering refresh_channel for a channel.
C18_Witness ==
    /\ hist.cycle # NULL
    /\ hist.cycle.after_failure
    /\ \E id \in ChannelIds : ScheduledAttempt(id)

(***************************************************************************)
(* The enclosures of a served feed, followed as a podcast client follows   *)
(* them (SpecAccess).                                                      *)
(***************************************************************************)
\* The routes /audio/t/<token>/<filename> and /audio/<filename>, requested
\* for an enclosure URL with Basic credentials auth and no query string.
RequestEnclosure(url, auth) ==
    IF Len(url) = 4 THEN serve_audio_by_token(url[3], url[4])
    ELSE serve_audio(url[2], auth, NULL)

\* The Basic credentials of the feed request held in resp.
FeedRequestAuth == IF resp.route = "feed" THEN resp.auth ELSE NULL

\* C19: in a rendered feed every enclosure URL is the token-prefixed audio
\* path with the channel's current token when the channel's policy is 'token'
\* and the plain audio path otherwise, and each enclosure URL, requested with
\* the credentials that authorized the feed request, is served by the audio
\* routes.
C19_EnclosureFollowsPolicy ==
    (resp.route \in {"feed", "feed_t"} /\ resp.reply.status = 200) =>
        \A c \in channels :
            c.id = resp.reply.body.channel =>
                /\ \A e \in resp.reply.body.entries :
                      /\ \E ep \in EpisodesOf(c) :
                            /\ ep.video_id = e.id
                            /\ e.enclosure =
                                  IF c.auth_type = "token"
                                  THEN <<"audio", "t", c.secret_token,
                                         ep.audio_path>>
                                  ELSE <<"audio", ep.audio_path>>
                      /\ RequestEnclosure(e.enclosure, FeedRequestAuth).status
                            = 200
                /\ c.auth_type = "token" => c.secret_token # NULL

\* C19 witness: a token channel's feed was served with an entry whose
\* enclosure is under the token path and is served by the token audio route.
C19_Witness ==
    /\ resp.route = "feed_t"
    /\ resp.reply.status = 200
    /\ \E e \in resp.reply.body.entries :
          /\ Len(e.enclosure) = 4
          /\ e.enclosure[3] = resp.token
          /\ RequestEnclosure(e.enclosure, NULL).status = 200

(***************************************************************************)
(* Completed downloads under interleaved refreshes (Spec).                 *)
(***************************************************************************)
\* C20: an episode row with a non-null audio path keeps its audio path and
\* its download timestamp in every step in which the row is not deleted,
\* whatever refreshes and re-listings interleave.
C20_DownloadNeverClobbered ==
    [][\A e \in episodes :
          e.audio_path # NULL =>
              \A e2 \in episodes' :
                  e2.id = e.id =>
                      /\ e2.audio_path = e.audio_path
                      /\ e2.downloaded_at = e.downloaded_at]_vars

\* C20 witness: a refresh that found no row for a video has downloaded it and
\* is about to store it, while another refresh has stored the episode.
C20_Witness ==
    \E w \in Threads :
        /\ thread[w].pc = "store"
        /\ thread[w].existing = NULL
        /\ \E e \in episodes :
              /\ e.video_id = Head(thread[w].videos)
              /\ e.audio_path # NULL
              /\ e.downloaded_at # NULL

(***************************************************************************)
(* The columns of an episode row (Spec).                                   *)
(***************************************************************************)
\* C21: in every reachable state, every episode row has a non-null audio path
\* iff it has a non-null download timestamp.
C21_AudioAndTimestampTogether ==
    \A e \in episodes : (e.audio_path # NULL) <=> (e.downloaded_at # NULL)

\* C21 witness: two episodes were stored, each with an audio path and its
\* own download timestamp.
C21_Witness ==
    \E e1, e2 \in episodes :
        /\ e1.audio_path # NULL /\ e2.audio_path # NULL
        /\ e1.downloaded_at # NULL /\ e2.downloaded_at # NULL
        /\ e1.downloaded_at # e2.downloaded_at

(***************************************************************************)
(* The order of the episodes a channel's query returns (SpecFeed).         *)
(***************************************************************************)
\* Date d1 is later than date d2.
Later(d1, d2) ==
    \/ d1.year > d2.year
    \/ d1.year = d2.year /\ d1.month > d2.month
    \/ d1.year = d2.year /\ d1.month = d2.month /\ d1.day > d2.day

\* C22: Episode.get_by_channel returns the channel's ready episodes ordered by
\* publish time descending: of two returned episodes with different non-null
\* publish timestamps, the later-published one comes first.
C22_FeedOrdering ==
    resp.route = "episodes" =>
        LET s == resp.reply.body
        IN  /\ Range(s) = Episode_get_by_channel(resp.channel_id)
            /\ \A i, j \in DOMAIN s :
                  \A d1, d2 \in PublishDates \ {NULL} :
                      (/\ s[i].published_at = adapt_datetime(d1)
                       /\ s[j].published_at = adapt_datetime(d2)
                       /\ Later(d1, d2)) => i < j

\* C22 witness: two ready episodes of one channel were returned, the one
\* published in November 2024 before the one published in February 2024.
C22_Witness ==
    /\ resp.route = "episodes"
    /\ Len(resp.reply.body) = 2
    /\ resp.reply.body[1].published_at =
          adapt_datetime([year |-> 2024, month |-> 11, day |-> 3])
    /\ resp.reply.body[2].published_at =
          adapt_datetime([year |-> 2024, month |-> 2, day |-> 20])

(***************************************************************************)
(* Ownership of episodes and files when a delete overlaps a refresh (Spec).*)
(***************************************************************************)
\* File f is the audio of an episode of channel c, or of a video a refresh of
\* channel c has downloaded and is about to store.
FileOf(f, c) ==
    \/ \E e \in episodes : e.channel_id = c.id /\ e.audio_path = f
    \/ \E w \in Threads :
          /\ thread[w].pc = "store"
          /\ thread[w].channel.id = c.id
          /\ AudioFilename(Head(thread[w].videos)) = f

\* C23: in every reachable state, every episode row's channel_id is the id of
\* a registered channel, and every audio file on disk belongs to a registered
\* channel, also when a channel is deleted while a refresh of it is in flight.
C23_OwnershipNeverDangling ==
    /\ \A e \in episodes : Channel_get_by_id(e.channel_id) # NULL
    /\ \A f \in files : \E c \in channels : FileOf(f, c)

(***************************************************************************)
(* Tokens and the policy of the channel they resolve to (SpecAccess).      *)
(***************************************************************************)
\* C24: no reachable state has a channel with a non-null secret_token and a
\* policy other than 'token'; so get_feed_by_token never answers 403, and
\* serve_audio_by_token serves only audio of a channel whose policy is
\* 'token'.
C24_TokenImpliesTokenPolicy ==
    /\ \A c \in channels : c.secret_token # NULL => c.auth_type = "token"
    /\ \A t \in Tokens :
          Channel_get_by_token(t) # NULL =>
              Channel_get_by_token(t).auth_type = "token"
    /\ resp.route = "feed_t" => resp.reply.status # 403
    /\ (resp.route = "audio_t" /\ resp.reply.status = 200) =>
          /\ EpisodeOfFile(resp.filename) # NULL
          /\ \A c \in channels :
                c.id = EpisodeOfFile(resp.filename).channel_id =>
                    c.auth_type = "token"

\* C24 witness: the token audio route has served a file while another
\* channel, once in token mode, has been switched to another policy.
C24_Witness ==
    /\ resp.route = "audio_t"
    /\ resp.reply.status = 200
    /\ \E c \in channels :
          /\ c.auth_type # "token"
          /\ \E i \in DOMAIN hist.tokens : hist.tokens[i].channel_id = c.id

(***************************************************************************)
(* Auth updates that name an unknown mode (SpecAccess).                    *)
(***************************************************************************)
\* C25: an auth-update request for a registered channel that names a mode
\* other than 'none', 'basic' or 'token' is answered 400 and leaves the
\* channel's auth_type, username, password_hash and secret_token as they
\* were.
C25_InvalidAuthTypeRejected ==
    (/\ resp.route = "auth"
     /\ resp.auth_type \notin {"none", "basic", "token"}
     /\ resp.old # NULL) =>
        /\ resp.reply.status = 400
        /\ Channel_get_by_id(resp.channel_id) = resp.old

(***************************************************************************)
(* What a refresh run leaves in the episodes table (SpecSeq).              *)
(***************************************************************************)
\* C26: in every reachable state every episode row has a non-null audio path,
\* and a video whose metadata fetch or extraction failed in a run has got no
\* episode row from that run.
C26_NoPendingEpisode ==
    /\ \A e \in episodes : e.audio_path # NULL
    /\ hist.run # NULL =>
          \A v \in FailedInRun :
              \A e \in episodes \ hist.run.start : e.video_id # v

\* C26 witness: a run has returned in which the second video of the listing
\* failed after the first was stored.
C26_Witness ==
    /\ hist.run # NULL
    /\ hist.run.done
    /\ Len(hist.run.listing) = 2
    /\ hist.run.listing[2] \in FailedInRun
    /\ hist.run.listing[1] \in hist.run.downloaded
    /\ \E e \in episodes \ hist.run.start : e.video_id = hist.run.listing[1]
    /\ \A e \in episodes : e.video_id # hist.run.listing[2]

(***************************************************************************)
(* Retries (SpecRetry): channels are registered and never deleted, the     *)
(* scheduler keeps firing, every handler step is eventually taken, and for *)
(* every video the remote service keeps listing it and its extraction      *)
(* succeeds again and again when it is attempted again and again.          *)
(* hist.failed collects the videos whose processing has failed in a run.   *)
(***************************************************************************)
\* hist.failed after a step of thread w: the inner except was reached.
ObserveFailure(w) ==
    /\ hist' = [hist EXCEPT !.failed =
                  IF thread[w].pc = "fetch" /\ thread'[w].pc # "store"
                  THEN @ \cup {Head(thread[w].videos)} ELSE @]
    /\ UNCHANGED config

EngineStep(w) ==
    /\ \/ NextChannel(w)
       \/ FetchChannelVideos(w)
       \/ CheckExisting(w)
       \/ GetVideoMetadataFails(w)
       \/ DownloadAudio(w)
       \/ StoreEpisode(w)
    /\ ObserveFailure(w)

RetryTick == SchedulerFire /\ UNCHANGED <<hist, config>>

Register ==
    \E w \in RequestThreads :
        /\ \/ \E yt \in YoutubeIds : AddChannel(w, yt)
           \/ CreateChannel(w)
        /\ UNCHANGED <<hist, config>>

\* The scheduler's fetch_channel_videos returns a listing that holds video v.
ListedAgain(v) ==
    /\ thread[SchedulerThread].pc = "list"
    /\ EngineStep(SchedulerThread)
    /\ thread'[SchedulerThread].pc = "check"
    /\ v \in Range(thread'[SchedulerThread].videos)

\* The scheduler's get_video_metadata and download_audio succeed for video v.
Extracted(v) ==
    /\ thread[SchedulerThread].pc = "fetch"
    /\ Head(thread[SchedulerThread].videos) = v
    /\ EngineStep(SchedulerThread)
    /\ thread'[SchedulerThread].pc = "store"

NextRetry ==
    \/ RetryTick
    \/ \E w \in Threads : EngineStep(w)
    \/ Register

SpecRetry ==
    /\ Init
    /\ [][NextRetry]_vars
    /\ WF_vars(RetryTick)
    /\ \A w \in Threads : WF_vars(EngineStep(w))
    /\ \A v \in Videos : SF_vars(ListedAgain(v)) /\ SF_vars(Extracted(v))

\* C27: a refresh that reaches a listed video with no downloaded episode
\* attempts it, whatever failed before; and a video whose processing failed
\* eventually has a downloaded episode when it stays listed and its extraction
\* eventually succeeds.
C27_FailedVideosRetried ==
    /\ [][\A w \in Threads :
            (/\ thread[w].pc = "check"
             /\ thread'[w] # thread[w]
             /\ ~Downloaded(Head(thread[w].videos)))
                => thread'[w].pc = "fetch"]_vars
    /\ \A v \in Videos : (v \in hist.failed) ~> Downloaded(v)

\* C27 witness: a video whose processing failed in an earlier run has been
\* downloaded by the scheduler, which is about to store its episode.
C27_Witness ==
    /\ thread[SchedulerThread].pc = "store"
    /\ Head(thread[SchedulerThread].videos) \in hist.failed
    /\ ~Downloaded(Head(thread[SchedulerThread].videos))

(***************************************************************************)
(* Registration and its initial refresh (SpecRegister): the request thread *)
(* serves POST /channels, DELETE requests and the scheduler interleave.    *)
(* hist.add observes the latest add request: the id of the channel it      *)
(* created (0: none), its answer (0: none yet), whether its initial        *)
(* refresh had a failure, whether the channel has been deleted since.      *)
(***************************************************************************)
\* An add_channel that reports the failure of its initial refresh.
add_channel_reply_RefreshErrorIs500(t, t2) ==
    IF t2.pc # "idle" THEN 0
    ELSE CASE t.pc = "idle" -> 400
           [] t.pc = "create" -> 500
           [] t.pc \in {"list", "fetch"} -> 500
           [] OTHER -> 201

\* What add_channel answers when its thread goes from t to t2: 400 for a
\* registered channel, 500 when Channel.create raised, 201 when
\* refresh_channel has returned.
add_channel_reply(t, t2) ==
    IF t2.pc # "idle" THEN 0
    ELSE CASE t.pc = "idle" -> 400
           [] t.pc = "create" -> 500
           [] OTHER -> 201

\* The step is a failure inside refresh_channel: no listing, or the inner
\* except.
RefreshFailure(t, t2) ==
    \/ t.pc = "list" /\ t2.pc # "check"
    \/ t.pc = "fetch" /\ t2.pc # "store"

ObserveAdd(w) ==
    LET t  == thread[w]
        t2 == thread'[w]
        add == CASE t.pc = "idle" ->
                      [channel_id |-> 0, status |-> add_channel_reply(t, t2),
                       failed |-> FALSE, deleted |-> FALSE]
                 [] t.pc = "create" ->
                      [hist.add EXCEPT
                         !.channel_id = IF t2.pc = "list" THEN t2.channel.id
                                        ELSE 0,
                         !.status = add_channel_reply(t, t2)]
                 [] OTHER ->
                      [hist.add EXCEPT
                         !.failed = @ \/ RefreshFailure(t, t2),
                         !.status = add_channel_reply(t, t2)]
    IN  /\ hist' = [hist EXCEPT !.add = add]
        /\ UNCHANGED config

\* DELETE /channels/<id>, noted when it deletes the observed channel.
ObserveDelete(channel_id) ==
    /\ hist' = [hist EXCEPT !.add =
                  IF @ # NULL /\ @.channel_id = channel_id
                  THEN [@ EXCEPT !.deleted = TRUE] ELSE @]
    /\ UNCHANGED config

AddRequestStep(w) ==
    /\ \/ \E yt \in YoutubeIds : AddChannel(w, yt)
       \/ CreateChannel(w)
       \/ FetchChannelVideos(w)
       \/ CheckExisting(w)
       \/ GetVideoMetadataFails(w)
       \/ DownloadAudio(w)
       \/ StoreEpisode(w)
    /\ ObserveAdd(w)

ScheduledStep ==
    /\ \/ SchedulerFire
       \/ NextChannel(SchedulerThread)
       \/ FetchChannelVideos(SchedulerThread)
       \/ CheckExisting(SchedulerThread)
       \/ GetVideoMetadataFails(SchedulerThread)
       \/ DownloadAudio(SchedulerThread)
       \/ StoreEpisode(SchedulerThread)
    /\ UNCHANGED <<hist, config>>

NextRegister ==
    \/ \E w \in RequestThreads : AddRequestStep(w)
    \/ \E id \in ChannelIds : DeleteChannel(id) /\ ObserveDelete(id)
    \/ ScheduledStep

SpecRegister == Init /\ [][NextRegister]_vars

\* C28: once add_channel has created the channel row, whatever fails in the
\* initial refresh, and unless a delete request has removed the channel, the
\* request is answered 201 and the channel is registered with policy 'none';
\* no step of the add request or of a refresh removes a channel row.
C28_RegistrationSurvives ==
    [][ /\ ( /\ hist'.add # NULL
              /\ hist'.add.channel_id # 0
              /\ ~hist'.add.deleted ) =>
              /\ hist'.add.status \in {0, 201}
              /\ \E c \in channels' :
                    c.id = hist'.add.channel_id /\ c.auth_type = "none"
        /\ thread' # thread =>
              \A c \in channels : \E c2 \in channels' : c2.id = c.id ]_vars

\* C28 witness: an add request whose initial refresh failed has been answered
\* 201 and its channel is registered.
C28_Witness ==
    /\ hist.add # NULL
    /\ hist.add.channel_id # 0
    /\ hist.add.failed
    /\ hist.add.status = 201
    /\ ~hist.add.deleted
    /\ Channel_get_by_id(hist.add.channel_id) # NULL
    /\ \A e \in episodes : e.channel_id # hist.add.channel_id

====
